---- MODULE Spec2Model ----
(***************************************************************************)
(* bq34z100-g1-flash: firmware flasher for the TI bq34z100-g1 fuel gauge.  *)
(* Model of src/bq34z100-g1-flash/main.py: one run of main(), statement by *)
(* statement, with the i2c traffic it issues, plus the pure helper         *)
(* swapbytes under its own specification.                                  *)
(***************************************************************************)
EXTENDS Integers, Sequences, FiniteSets, TLC

VARIABLES
    file_exists,      \* os.path.isfile(arguments['flash'])
    file_extension,   \* os.path.splitext(arguments['flash'])[1]
    image_kind,       \* what the image file holds (never read by the run)
    port_given,       \* whether -p/--port is on the command line
    args_port,        \* arguments['port'] after argparse applied its default
    pc,               \* statement the run is at
    port,             \* local `port` of main
    bus,              \* SMBus handle of flash_image
    output_values,    \* list object of put_device_into_rom_mode
    output_values_2,  \* list object of put_device_into_rom_mode
    log,              \* bus transactions attempted and delays slept, in order
    called,           \* functions of the module entered so far
    flash_port,       \* `port` parameter flash_image was called with
    exc,              \* exception that ended the run
    exit_status,      \* status of the process, Running until it ends
    bytes_in,         \* list object handed to swapbytes
    bytes_orig,       \* its contents before the first swapbytes
    nswaps            \* number of swapbytes applications so far

vars == <<file_exists, file_extension, image_kind, port_given, args_port, pc, port, bus,
          output_values, output_values_2, log, called, flash_port, exc,
          exit_status, bytes_in, bytes_orig, nswaps>>

inputVars == <<file_exists, file_extension, image_kind, port_given, args_port>>
swapVars  == <<bytes_in, bytes_orig, nswaps>>

(***************************************************************************)
(* Bounds of the model.                                                    *)
(***************************************************************************)
MaxPort  == 2
MaxSwaps == 3

(***************************************************************************)
(* Program constants.                                                      *)
(***************************************************************************)
FUEL_GAUGE_ADDRESS == 85     \* 0x55
ROM_ADDRESS        == 11     \* 0x0B
DefaultPort        == 1      \* add_argument('-p', ..., default=1)
write_byte_data_params == 4  \* def write_byte_data(bus, register, value, device)

Byte == 0..255

Unbound  == <<>>      \* a local name not yet assigned; <<v>> once bound to v
Running  == <<>>      \* no exit status yet; <<n>> once the process ended with n
NoExc    == "none"

Extensions == {".srec", ".SREC", ".txt", ""}
ImageKinds == {"single_record", "no_terminator", "bad_checksum"}

(***************************************************************************)
(* Pure helpers.                                                           *)
(***************************************************************************)

\* A swapbytes that forgets the first element (bytes_in[0] = bytes_in[1]).
swapbytes_overwrite(b) == <<b[2], b[2]>>

\* swapbytes: bytes_in[0], bytes_in[1] = bytes_in[1], bytes_in[0]; the same
\* list object is returned.
swapbytes(b) == <<b[2], b[1]>>

\* An is_valid_image_file without the extension test.
is_valid_image_file_any_ext(isfile, ext) == isfile

\* is_valid_image_file: the path names a file and its extension is '.srec'.
is_valid_image_file(isfile, ext) ==
    IF ~isfile THEN FALSE
    ELSE IF ext # ".srec" THEN FALSE
    ELSE TRUE

\* A write_block_data that transmits the list in array order, without swapbytes.
BlockTx_noswap(register, values, device, ok) ==
    [kind |-> "block", device |-> device, register |-> register,
     data |-> values, ok |-> ok]

\* The transaction bus.write_i2c_block_data(device, register, swapbytes(values)).
BlockTx(register, values, device, ok) ==
    [kind |-> "block", device |-> device, register |-> register,
     data |-> swapbytes(values), ok |-> ok]

\* The delay slept by wait(sec), in tenths of a second.
WaitEv(tenths) ==
    [kind |-> "wait", device |-> 0, register |-> 0, data |-> <<tenths>>, ok |-> TRUE]

\* A write wrapper that swallows the transport's IOError and carries on.
AfterWrite_swallow(ok, next) ==
    [pc |-> next, exc |-> NoExc, status |-> Running]

\* write_block_data / write_byte_data have no try/except: the transport's
\* IOError propagates out of main and ends the process with status 1.
AfterWrite(ok, next) ==
    IF ok THEN [pc |-> next, exc |-> NoExc, status |-> Running]
          ELSE [pc |-> "exited", exc |-> "IOError", status |-> <<1>>]

\* Python binds a call only when the positional arguments match the parameters.
Binds(nargs, nparams) == nargs = nparams

\* mass_erase_data_flash, line 103: checksum = (0x0C + 0x83 + 0xDE) % 0x010000.
erase_checksum == (12 + 131 + 222) % 65536

(***************************************************************************)
(* Initial state: the command line and the file system are the inputs.     *)
(***************************************************************************)
InitRun ==
    /\ pc = "main_args"
    /\ port = Unbound
    /\ bus = "unopened"
    /\ output_values = <<255, 255>>
    /\ output_values_2 = <<15, 0>>
    /\ log = <<>>
    /\ called = {"main"}
    /\ flash_port = Unbound
    /\ exc = NoExc
    /\ exit_status = Running

Init ==
    /\ file_exists \in BOOLEAN
    /\ file_extension \in Extensions
    /\ image_kind \in ImageKinds
    /\ port_given \in BOOLEAN
    /\ args_port \in (IF port_given THEN 0..MaxPort ELSE {DefaultPort})
    /\ InitRun
    /\ bytes_in = <<0, 0>>
    /\ bytes_orig = <<0, 0>>
    /\ nswaps = 0

(***************************************************************************)
(* main                                                                    *)
(***************************************************************************)

\* main, lines 245-255: parse the arguments; `port` is bound only when
\* arguments['port'] is truthy.
ParseArgs ==
    /\ pc = "main_args"
    /\ port' = IF args_port # 0 THEN <<args_port>> ELSE Unbound
    /\ pc' = "main_validate"
    /\ UNCHANGED <<inputVars, bus, output_values, output_values_2, log, called,
                   flash_port, exc, exit_status, swapVars>>

\* main, lines 257-262: an invalid image path ends the run with sys.exit().
Validate ==
    /\ pc = "main_validate"
    /\ called' = called \cup {"is_valid_image_file"}
    /\ IF is_valid_image_file(file_exists, file_extension)
       THEN /\ pc' = "flash_call"
            /\ UNCHANGED exit_status
       ELSE /\ pc' = "exited"
            /\ exit_status' = <<0>>
    /\ UNCHANGED <<inputVars, port, bus, output_values, output_values_2, log,
                   flash_port, exc, swapVars>>

\* main, line 259: flash_image(image_file, port); reading the unbound local
\* raises UnboundLocalError.
CallFlashImage ==
    /\ pc = "flash_call"
    /\ IF port = Unbound
       THEN /\ pc' = "exited"
            /\ exc' = "UnboundLocalError"
            /\ exit_status' = <<1>>
            /\ UNCHANGED <<called, flash_port>>
       ELSE /\ pc' = "open_bus"
            /\ called' = called \cup {"flash_image"}
            /\ flash_port' = port
            /\ UNCHANGED <<exc, exit_status>>
    /\ UNCHANGED <<inputVars, port, bus, output_values, output_values_2, log,
                   swapVars>>

(***************************************************************************)
(* flash_image                                                             *)
(***************************************************************************)

\* A handler that reports the failure and then carries on without exiting.
OpenBus_fallthrough ==
    /\ pc = "open_bus"
    /\ \E opened \in BOOLEAN :
         /\ bus' = IF opened THEN "open" ELSE "failed"
         /\ pc' = "rom_w1"
         /\ UNCHANGED exit_status
    /\ UNCHANGED <<inputVars, port, output_values, output_values_2, log, called,
                   flash_port, exc, swapVars>>

\* flash_image, lines 56-63: smbus.SMBus(port); on IOError print and sys.exit().
OpenBus ==
    /\ pc = "open_bus"
    /\ \E opened \in BOOLEAN :
         IF opened
         THEN /\ bus' = "open"
              /\ pc' = "rom_w1"
              /\ UNCHANGED exit_status
         ELSE /\ bus' = "failed"
              /\ pc' = "exited"
              /\ exit_status' = <<0>>
    /\ UNCHANGED <<inputVars, port, output_values, output_values_2, log, called,
                   flash_port, exc, swapVars>>

(***************************************************************************)
(* put_device_into_rom_mode                                                *)
(***************************************************************************)

\* One write_block_data(bus, 0x00, output_values, FUEL_GAUGE_ADDRESS): swapbytes
\* reorders the caller's list in place and the reordered list is transmitted.
RomWriteOutputValues(here, next) ==
    /\ pc = here
    /\ called' = called \cup {"put_device_into_rom_mode", "write_block_data", "swapbytes"}
    /\ \E ok \in BOOLEAN :
         /\ log' = Append(log, BlockTx(0, output_values, FUEL_GAUGE_ADDRESS, ok))
         /\ output_values' = swapbytes(output_values)
         /\ pc' = AfterWrite(ok, next).pc
         /\ exc' = AfterWrite(ok, next).exc
         /\ exit_status' = AfterWrite(ok, next).status
    /\ UNCHANGED <<inputVars, port, bus, output_values_2, flash_port, swapVars>>

\* put_device_into_rom_mode, line 150.
RomWrite1 == RomWriteOutputValues("rom_w1", "rom_w2")

\* put_device_into_rom_mode, line 151.
RomWrite2 == RomWriteOutputValues("rom_w2", "rom_wait1")

\* wait(sec) inside put_device_into_rom_mode.
RomWait(here, next, tenths) ==
    /\ pc = here
    /\ called' = called \cup {"wait"}
    /\ log' = Append(log, WaitEv(tenths))
    /\ pc' = next
    /\ UNCHANGED <<inputVars, port, bus, output_values, output_values_2,
                   flash_port, exc, exit_status, swapVars>>

\* put_device_into_rom_mode, line 154: wait(0.2).
RomWait1 == RomWait("rom_wait1", "rom_w3", 2)

\* A third ROM-entry write sent to the ROM address, as if the device had
\* already switched address.
RomWrite3_rom_address ==
    /\ pc = "rom_w3"
    /\ \E ok \in BOOLEAN :
         /\ log' = Append(log, BlockTx(0, output_values_2, ROM_ADDRESS, ok))
         /\ output_values_2' = swapbytes(output_values_2)
         /\ pc' = AfterWrite(ok, "rom_wait2").pc
         /\ exc' = AfterWrite(ok, "rom_wait2").exc
         /\ exit_status' = AfterWrite(ok, "rom_wait2").status
    /\ UNCHANGED <<inputVars, port, bus, output_values, called, flash_port, swapVars>>

\* put_device_into_rom_mode, line 158:
\* write_block_data(bus, 0x00, output_values_2, FUEL_GAUGE_ADDRESS).
RomWrite3 ==
    /\ pc = "rom_w3"
    /\ \E ok \in BOOLEAN :
         /\ log' = Append(log, BlockTx(0, output_values_2, FUEL_GAUGE_ADDRESS, ok))
         /\ output_values_2' = swapbytes(output_values_2)
         /\ pc' = AfterWrite(ok, "rom_wait2").pc
         /\ exc' = AfterWrite(ok, "rom_wait2").exc
         /\ exit_status' = AfterWrite(ok, "rom_wait2").status
    /\ UNCHANGED <<inputVars, port, bus, output_values, called, flash_port, swapVars>>

\* put_device_into_rom_mode, line 161: wait(0.2).
RomWait2 == RomWait("rom_wait2", "erase_control", 2)

(***************************************************************************)
(* mass_erase_data_flash                                                   *)
(***************************************************************************)

\* mass_erase_data_flash, line 96: write_byte_data(0x00, 0x0C, ROM_ADDRESS) gives
\* three arguments to a function of four parameters, so the call raises
\* TypeError before anything reaches the bus and the run ends with status 1.
MassEraseControl ==
    /\ pc = "erase_control"
    /\ called' = called \cup {"mass_erase_data_flash"}
    /\ IF Binds(3, write_byte_data_params)
       THEN \E ok \in BOOLEAN :
              /\ log' = Append(log, [kind |-> "byte", device |-> ROM_ADDRESS,
                                     register |-> 0, data |-> <<12>>, ok |-> ok])
              /\ pc' = AfterWrite(ok, "erase_target").pc
              /\ exc' = AfterWrite(ok, "erase_target").exc
              /\ exit_status' = AfterWrite(ok, "erase_target").status
       ELSE /\ pc' = "exited"
            /\ exc' = "TypeError"
            /\ exit_status' = <<1>>
            /\ UNCHANGED log
    /\ UNCHANGED <<inputVars, port, bus, output_values, output_values_2,
                   flash_port, swapVars>>

Next ==
    \/ ParseArgs
    \/ Validate
    \/ CallFlashImage
    \/ OpenBus
    \/ RomWrite1
    \/ RomWrite2
    \/ RomWait1
    \/ RomWrite3
    \/ RomWait2
    \/ MassEraseControl

Spec == Init /\ [][Next]_vars

(***************************************************************************)
(* swapbytes on its own: any two-element byte list, swapped repeatedly.    *)
(***************************************************************************)
InitSwap ==
    /\ file_exists = FALSE
    /\ file_extension = ""
    /\ image_kind = "single_record"
    /\ port_given = FALSE
    /\ args_port = DefaultPort
    /\ InitRun
    /\ bytes_in \in [1..2 -> Byte]
    /\ bytes_orig = bytes_in
    /\ nswaps = 0

\* swapbytes(bytes_in), lines 180-181, applied to the same list object again.
ApplySwapbytes ==
    /\ nswaps < MaxSwaps
    /\ bytes_in' = swapbytes(bytes_in)
    /\ nswaps' = nswaps + 1
    /\ UNCHANGED <<inputVars, pc, port, bus, output_values, output_values_2, log,
                   called, flash_port, exc, exit_status, bytes_orig>>

NextSwap == ApplySwapbytes

SpecSwap == InitSwap /\ [][NextSwap]_vars

TypeOK ==
    /\ file_exists \in BOOLEAN
    /\ file_extension \in Extensions
    /\ image_kind \in ImageKinds
    /\ port_given \in BOOLEAN
    /\ args_port \in 0..MaxPort
    /\ pc \in {"main_args", "main_validate", "flash_call", "open_bus", "rom_w1",
               "rom_w2", "rom_wait1", "rom_w3", "rom_wait2", "erase_control",
               "erase_target", "exited"}
    /\ bus \in {"unopened", "open", "failed"}
    /\ exc \in {NoExc, "IOError", "TypeError", "UnboundLocalError"}
    /\ Len(exit_status) <= 1
    /\ Len(log) <= 6

(***************************************************************************)
(* Vocabulary of the properties.                                           *)
(***************************************************************************)
ValidPath == file_exists /\ file_extension = ".srec"

Ended == pc = "exited"

\* Positions of the log that are bus transactions (not delays).
TxIdx == {i \in 1..Len(log) : log[i].kind # "wait"}

NoBusTraffic == TxIdx = {}

WriteRejected == \E i \in 1..Len(log) : ~log[i].ok

ByteWritten(register, value) ==
    \E i \in 1..Len(log) :
        /\ log[i].kind = "byte"
        /\ log[i].device = ROM_ADDRESS
        /\ log[i].register = register
        /\ log[i].data = <<value>>
        /\ log[i].ok

MassEraseIssued == ByteWritten(0, 12)

ProgramStartDone ==
    /\ ByteWritten(0, 15)
    /\ ByteWritten(100, 15)
    /\ ByteWritten(101, 0)

Shape(e) == <<e.kind, e.device, e.register>>

\* Scenario A: kind, bus address and register of every step of a full flash of
\* one record of 4 bytes at 0x1000.
ScenarioA ==
    << <<"block", FUEL_GAUGE_ADDRESS, 0>>, <<"block", FUEL_GAUGE_ADDRESS, 0>>,
       <<"wait", 0, 0>>,
       <<"block", FUEL_GAUGE_ADDRESS, 0>>,
       <<"wait", 0, 0>>,
       <<"byte", ROM_ADDRESS, 0>>,
       <<"byte", ROM_ADDRESS, 4>>, <<"byte", ROM_ADDRESS, 5>>,
       <<"byte", ROM_ADDRESS, 100>>, <<"byte", ROM_ADDRESS, 101>>,
       <<"wait", 0, 0>>,
       <<"block", ROM_ADDRESS, 4096>>,
       <<"byte", ROM_ADDRESS, 100>>, <<"byte", ROM_ADDRESS, 101>>,
       <<"byte", ROM_ADDRESS, 0>>,
       <<"byte", ROM_ADDRESS, 100>>, <<"byte", ROM_ADDRESS, 101>> >>

\* The transmissions of the ROM-entry sequence, in order.
RomEntryTx == << <<255, 255>>, <<255, 255>>, <<0, 15>> >>

(***************************************************************************)
(* Properties.                                                             *)
(***************************************************************************)

\* C1: with a valid single-record image (4 bytes at 0x1000), an opened bus and
\* a transport that never fails, the finished run has issued exactly the
\* scenario-A sequence: ROM entry at 0x55, mass erase, erase target, erase
\* checksum, settle delay, the payload block, final checksum, program start.
C1_ScenarioA_Sequence ==
    (Ended /\ ValidPath /\ image_kind = "single_record" /\ bus = "open"
           /\ ~WriteRejected)
        => /\ Len(log) = Len(ScenarioA)
           /\ \A i \in 1..Len(log) : Shape(log[i]) = ScenarioA[i]

\* C2: when the image cannot be parsed (no terminator, bad checksum) the run
\* has issued no bus transaction at all: the image is validated before the
\* first ROM-entry write.
C2_ParseFailure_NoTraffic ==
    image_kind # "single_record" => NoBusTraffic

\* C3: when the image path is not an existing file with the .srec extension,
\* main never calls flash_image, the bus is never opened and nothing is sent.
C3_InvalidPath_NoFlash ==
    ~ValidPath =>
        /\ "flash_image" \notin called
        /\ bus = "unopened"
        /\ log = <<>>

C3_Witness ==
    /\ Ended
    /\ file_exists
    /\ file_extension # ".srec"
    /\ exit_status # Running

\* C4: a run ended by a rejected bus write reports an outcome tagged with the
\* phase: a pre-erase failure when the mass-erase command 0x0C was not yet
\* issued, a post-erase failure otherwise.
C4_PhaseTagged_Failure ==
    (Ended /\ WriteRejected) =>
        exc = IF MassEraseIssued THEN "PostEraseFailure" ELSE "PreEraseFailure"

\* C5: the erase phase writes a checksum to register 0x64, and every checksum
\* written to 0x64 is 0xFF - (sum mod 0x100) of the running checksum.
C5_Complemented_Low_Byte ==
    /\ \A i \in 1..Len(log) :
         (log[i].kind = "byte" /\ log[i].register = 100 /\ ~ProgramStartDone)
            => log[i].data = <<255 - (erase_checksum % 256)>>
    /\ (Ended /\ "mass_erase_data_flash" \in called /\ ~WriteRejected)
            => ByteWritten(100, 255 - (erase_checksum % 256))

\* C6: the checksum of 0x0C, 0x83, 0xDE from zero has low byte 0x91 and high
\* byte 0x00, and the erase phase writes these two to registers 0x64 and 0x65.
C6_Erase_Checksum_Pair ==
    (Ended /\ "mass_erase_data_flash" \in called /\ ~WriteRejected) =>
        /\ erase_checksum % 256 = 145
        /\ erase_checksum \div 256 = 0
        /\ ByteWritten(100, 145)
        /\ ByteWritten(101, 0)

\* C7: nothing is retried: the transactions issued are a prefix of the protocol
\* sequence, each in its place, only the last one can have been rejected, and
\* once a bus write was rejected the run issues nothing further.
C7_No_Retry ==
    /\ [](/\ Cardinality(TxIdx) <= Len(RomEntryTx)
          /\ \A i \in 1..Len(log) :
               /\ i < Len(log) => log[i].ok
               /\ log[i].kind # "wait" =>
                    log[i].data = RomEntryTx[Cardinality({j \in TxIdx : j <= i})])
    /\ [][WriteRejected => log' = log]_vars

C7_Witness ==
    /\ Ended
    /\ exc = "IOError"
    /\ Cardinality(TxIdx) = 2
    /\ ~log[Len(log)].ok

\* C8: swapbytes applied once to a two-element list leaves the two elements
\* in reversed order, and applied twice restores the original list.
C8_Swap_Involution ==
    /\ nswaps % 2 = 1 => bytes_in = <<bytes_orig[2], bytes_orig[1]>>
    /\ nswaps % 2 = 0 => bytes_in = bytes_orig

C8_Witness ==
    /\ nswaps = 2
    /\ bytes_orig[1] # bytes_orig[2]
    /\ bytes_in = bytes_orig

\* C9: when the bus port cannot be opened, flash_image ends the run before
\* put_device_into_rom_mode: no bus transaction is issued.
C9_OpenFailure_NoTraffic ==
    bus = "failed" =>
        /\ Ended
        /\ "put_device_into_rom_mode" \notin called
        /\ log = <<>>

C9_Witness ==
    /\ bus = "failed"
    /\ Ended
    /\ "flash_image" \in called

\* C10: a run exits with status zero exactly when it completed the
\* program-start sequence; every failed run exits non-zero.
C10_Failure_Exits_NonZero ==
    Ended => (exit_status = <<0>> <=> ProgramStartDone)

\* The ROM-entry sequence of put_device_into_rom_mode when every write is
\* accepted: what is transmitted, and the delays in tenths of a second.
RomEntryLog ==
    << [kind |-> "block", device |-> FUEL_GAUGE_ADDRESS, register |-> 0,
        data |-> <<255, 255>>, ok |-> TRUE],
       [kind |-> "block", device |-> FUEL_GAUGE_ADDRESS, register |-> 0,
        data |-> <<255, 255>>, ok |-> TRUE],
       [kind |-> "wait", device |-> 0, register |-> 0, data |-> <<2>>, ok |-> TRUE],
       [kind |-> "block", device |-> FUEL_GAUGE_ADDRESS, register |-> 0,
        data |-> <<0, 15>>, ok |-> TRUE],
       [kind |-> "wait", device |-> 0, register |-> 0, data |-> <<2>>, ok |-> TRUE] >>

RomEntryComplete == Len(log) >= Len(RomEntryLog) /\ ~WriteRejected

\* C11: put_device_into_rom_mode issues, in order and with nothing in between,
\* two block writes of FF FF to register 0x00 at 0x55, a delay, one block write
\* to register 0x00 at 0x55 transmitted as 00 0F (the reverse of {0x0F, 0x00}),
\* and a second delay.
C11_RomEntry_Sequence ==
    /\ \A i \in 1..Len(log) :
         /\ i <= Len(RomEntryLog)
         /\ [log[i] EXCEPT !.ok = TRUE] = RomEntryLog[i]
    /\ pc = "erase_control" => log = RomEntryLog

C11_Witness ==
    /\ pc = "erase_control"
    /\ Len(log) = 5
    /\ log[4].data = <<0, 15>>

CleanRunEnded == Ended /\ bus = "open" /\ RomEntryComplete

\* The record of the single-record image: 4 payload bytes at address 0x1000.
Record == [address |-> 4096, payload |-> <<1, 2, 3, 4>>]

RECURSIVE SumSeq(_)
SumSeq(q) == IF q = <<>> THEN 0 ELSE Head(q) + SumSeq(Tail(q))

IsByteWrite(e, register, value) ==
    /\ e.kind = "byte"
    /\ e.device = ROM_ADDRESS
    /\ e.register = register
    /\ e.data = <<value>>

\* C13: after ROM entry the erase phase runs in order: 0x0C to register 0x00
\* first, then 0x83 to 0x04 and 0xDE to 0x05, then the checksum pair to
\* 0x64/0x65, then a delay of at least 0.5 s, with no payload or program-start
\* write before that delay.
C13_Erase_Phase_Order ==
    CleanRunEnded =>
        /\ Len(log) >= Len(RomEntryLog) + 6
        /\ IsByteWrite(log[Len(RomEntryLog) + 1], 0, 12)
        /\ IsByteWrite(log[Len(RomEntryLog) + 2], 4, 131)
        /\ IsByteWrite(log[Len(RomEntryLog) + 3], 5, 222)
        /\ Shape(log[Len(RomEntryLog) + 4]) = <<"byte", ROM_ADDRESS, 100>>
        /\ Shape(log[Len(RomEntryLog) + 5]) = <<"byte", ROM_ADDRESS, 101>>
        /\ log[Len(RomEntryLog) + 6].kind = "wait"
        /\ log[Len(RomEntryLog) + 6].data[1] >= 5

\* C14: the erase phase writes sum mod 0x100 to 0x64 and sum div 0x100 to 0x65,
\* both in 0..0xFF, for sum = (0x0C + 0x83 + 0xDE) mod 0x10000, and
\* mass_erase_data_flash returns (it does not raise) with that sum.
C14_Erase_Checksum_Written ==
    CleanRunEnded =>
        /\ erase_checksum % 256 \in Byte
        /\ erase_checksum \div 256 \in Byte
        /\ ByteWritten(100, erase_checksum % 256)
        /\ ByteWritten(101, erase_checksum \div 256)
        /\ exc # "TypeError"

\* C15: in the write phase every record of the image is written exactly once,
\* as a block write of its payload to its address, and the final checksum pair
\* is written only after the last record.
C15_Records_Written_Once ==
    (CleanRunEnded /\ ValidPath /\ image_kind = "single_record") =>
        \E i \in 1..Len(log) :
            /\ log[i].kind = "block"
            /\ log[i].device = ROM_ADDRESS
            /\ log[i].register = Record.address
            /\ \A j \in 1..Len(log) :
                 (log[j].kind = "block" /\ log[j].device = ROM_ADDRESS) => j = i
            /\ \E j \in (i + 1)..Len(log) :
                 Shape(log[j]) = <<"byte", ROM_ADDRESS, 100>>

\* C16: the checksum is carried from the erase phase through the write phase:
\* the final verification pair is computed from (erase sum + every payload byte
\* written) mod 0x10000.
C16_Checksum_Carried ==
    (CleanRunEnded /\ ValidPath /\ image_kind = "single_record") =>
        /\ ByteWritten(100, ((erase_checksum + SumSeq(Record.payload)) % 65536) % 256)
        /\ ByteWritten(101, ((erase_checksum + SumSeq(Record.payload)) % 65536) \div 256)

\* C17: the program-start sequence is the last thing a run issues: exactly the
\* byte writes 0x0F to 0x00, 0x0F to 0x64 and 0x00 to 0x65 at the ROM address,
\* in this order, and nothing after them.
C17_Program_Start_Last ==
    (CleanRunEnded /\ ValidPath /\ image_kind = "single_record") =>
        /\ Len(log) >= Len(RomEntryLog) + 3
        /\ IsByteWrite(log[Len(log) - 2], 0, 15)
        /\ IsByteWrite(log[Len(log) - 1], 100, 15)
        /\ IsByteWrite(log[Len(log)], 101, 0)

\* C18: a run with a valid image and a transport that never fails, once past
\* ROM entry, does not stop in an intermediate phase: when it ends it has
\* issued the mass-erase command and the program-start sequence and ended
\* without an error (Done).
C18_Run_Reaches_Done ==
    (Ended /\ RomEntryComplete /\ ValidPath /\ image_kind = "single_record") =>
        /\ exc = NoExc
        /\ MassEraseIssued
        /\ ProgramStartDone

\* C19: write_block_data leaves the caller's list as it was: the lists of
\* put_device_into_rom_mode hold the same bytes in the same order after the
\* calls as before them.
C19_Caller_List_Unchanged ==
    /\ output_values = <<255, 255>>
    /\ output_values_2 = <<15, 0>>

\* C20: with a valid image path, main calls flash_image with exactly the port
\* the command line gave (0 included), and with 1 when none was given.
C20_Port_Passed_Through ==
    (ValidPath /\ pc \notin {"main_args", "main_validate", "flash_call"}) =>
        /\ "flash_image" \in called
        /\ flash_port = <<args_port>>

====
